---------------------------- MODULE Spec2Model ----------------------------
(***************************************************************************)
(* Streaming with interface reconstruction (src/src/streaming.cpp) and the *)
(* adaptive time step (src/src/timeStep.cpp) of the free-surface lattice   *)
(* Boltzmann solver, as a state machine.                                   *)
(*                                                                         *)
(* A double is modelled by an extended rational <<n, d>> in lowest terms:  *)
(* d > 0 is the number n/d, <<1,0>> is +Inf, <<-1,0>> is -Inf and <<0,0>>  *)
(* is NaN.  Rounding is not modelled; division by zero, Inf and NaN follow *)
(* IEEE 754 (signed zeros apart).                                          *)
(***************************************************************************)
EXTENDS Integers, Sequences, FiniteSets, TLC

\* ------------------------------------------------------------------ bounds
\* Interior cells along z (length = {1, 1, LenZ}); the outer loop of
\* doStreaming is the parallel one, so cells of different z run concurrently.
LenZ == 2

\* ------------------------------------------------------- double arithmetic
Abs(n) == IF n < 0 THEN -n ELSE n

Sgn(n) == IF n < 0 THEN -1 ELSE IF n > 0 THEN 1 ELSE 0

RECURSIVE GCD(_, _)
GCD(a, b) == IF b = 0 THEN a ELSE GCD(b, a % b)

Norm(n, d) ==
    IF d = 0 THEN <<Sgn(n), 0>>
    ELSE LET g == GCD(Abs(n), Abs(d))
             s == IF d < 0 THEN -1 ELSE 1
         IN  <<(s * n) \div g, (s * d) \div g>>

NaN == <<0, 0>>
PInf == <<1, 0>>
NInf == <<-1, 0>>
Zero == <<0, 1>>
One == <<1, 1>>
Half == <<1, 2>>

IsNaN(a) == a = NaN
IsFinite(a) == a[2] # 0

Neg(a) == <<-a[1], a[2]>>

Add(a, b) ==
    IF IsFinite(a) /\ IsFinite(b)
    THEN LET g == GCD(a[2], b[2])
         IN  Norm(a[1] * (b[2] \div g) + b[1] * (a[2] \div g), (a[2] \div g) * b[2])
    ELSE IF IsNaN(a) \/ IsNaN(b) THEN NaN
    ELSE IF IsFinite(a) THEN b
    ELSE IF IsFinite(b) THEN a
    ELSE IF a = b THEN a ELSE NaN

Sub(a, b) == Add(a, Neg(b))

Mul(a, b) ==
    IF IsFinite(a) /\ IsFinite(b)
    THEN LET g1 == GCD(Abs(a[1]), b[2])
             g2 == GCD(Abs(b[1]), a[2])
         IN  Norm((a[1] \div g1) * (b[1] \div g2), (a[2] \div g2) * (b[2] \div g1))
    ELSE <<Sgn(a[1] * b[1]), 0>>

Inv(a) == IF a[1] < 0 THEN <<-a[2], -a[1]>> ELSE <<a[2], a[1]>>

Div(a, b) == Mul(a, Inv(b))

Lt(a, b) ==
    IF IsNaN(a) \/ IsNaN(b) \/ a = b THEN FALSE
    ELSE IF a = NInf \/ b = PInf THEN TRUE
    ELSE IF a = PInf \/ b = NInf THEN FALSE
    ELSE LET g == GCD(a[2], b[2])
         IN  a[1] * (b[2] \div g) < b[1] * (a[2] \div g)

Gt(a, b) == Lt(b, a)

Le(a, b) == ~IsNaN(a) /\ ~IsNaN(b) /\ ~Lt(b, a)

Ge(a, b) == Le(b, a)

\* std::max(a, b): (a < b) ? b : a
Max(a, b) == IF Lt(a, b) THEN b ELSE a

Num(n) == <<n, 1>>


\* ----------------------------------------------------------- lattice model
\* D3Q19 (LBDefinitions.hpp).
Q == 19

Dirs == 0 .. (Q - 1)

LATTICEVELOCITIES ==
    << <<0, -1, -1>>, <<-1, 0, -1>>, <<0, 0, -1>>, <<1, 0, -1>>, <<0, 1, -1>>,
       <<-1, -1, 0>>, <<0, -1, 0>>, <<1, -1, 0>>, <<-1, 0, 0>>, <<0, 0, 0>>,
       <<1, 0, 0>>, <<-1, 1, 0>>, <<0, 1, 0>>, <<1, 1, 0>>, <<0, -1, 1>>,
       <<-1, 0, 1>>, <<0, 0, 1>>, <<1, 0, 1>>, <<0, 1, 1>> >>

\* LATTICEVELOCITIES[i] of the code (0-based) is Vel(i).
Vel(i) == LATTICEVELOCITIES[i + 1]

\* LATTICEWEIGHTS[i] * 36
LatticeWeights36 == <<1, 1, 2, 1, 1, 1, 2, 1, 2, 12, 2, 1, 2, 1, 1, 1, 2, 1, 1>>

LatticeWeight(i) == Norm(LatticeWeights36[i + 1], 36)

\* C_S * C_S
CsSq == <<1, 3>>

inverseVelocityIndex(i) == Q - 1 - i

\* ------------------------------------------------------------------- grid
length == <<1, 1, LenZ>>

NumCells == (length[1] + 2) * (length[2] + 2) * (length[3] + 2)

Cells == 0 .. (NumCells - 1)

FieldIdx == 0 .. (NumCells * Q - 1)

indexForCell(cx, cy, cz) ==
    cz * (length[1] + 2) * (length[2] + 2) + cy * (length[1] + 2) + cx

CoordX(c) == c % (length[1] + 2)
CoordY(c) == (c \div (length[1] + 2)) % (length[2] + 2)
CoordZ(c) == c \div ((length[1] + 2) * (length[2] + 2))

InteriorZ == 1 .. LenZ

InteriorCells == {indexForCell(1, 1, z) : z \in InteriorZ}

Flags == {"FLUID", "INTERFACE", "EMPTY", "NO_SLIP"}

\* ------------------------------------------------ local moments (per cell)
\* A C array of n doubles as the sequence <<F(1), ..., F(n)>>: element i of
\* the array is element i + 1 of the sequence.
MapSeq(F(_), n) == [k \in 1 .. n |-> F(k)] \o <<>>

Dot(a, b) == Add(Add(Mul(a[1], b[1]), Mul(a[2], b[2])), Mul(a[3], b[3]))

\* The lattice velocity of direction i as a vector of doubles.
VelD(i) == <<Num(Vel(i)[1]), Num(Vel(i)[2]), Num(Vel(i)[3])>>

\* sum over the directions below n of f_i * c_i[d]
RECURSIVE MomentumBelow(_, _, _, _)
MomentumBelow(field, fieldIndex, d, n) ==
    IF n = 0 THEN Zero
    ELSE Add(MomentumBelow(field, fieldIndex, d, n - 1),
             Mul(field[fieldIndex + n - 1], Num(Vel(n - 1)[d])))

\* computeVelocity(&field[fieldIndex], density, velocity):
\* velocity[d] = (sum_i f_i * c_i[d]) / density
computeVelocity(field, fieldIndex, rho) ==
    << Div(MomentumBelow(field, fieldIndex, 1, Q), rho),
       Div(MomentumBelow(field, fieldIndex, 2, Q), rho),
       Div(MomentumBelow(field, fieldIndex, 3, Q), rho) >>

\* feq[i] = w_i * rho * (1 + c.u/cs^2 + (c.u)^2/(2 cs^4) - u.u/(2 cs^2))
FeqEntry(i, rho, cu, uu) ==
    Mul(Mul(LatticeWeight(i), rho),
        Sub(Add(Add(One, Div(cu, CsSq)),
                Div(Mul(cu, cu), Mul(Num(2), Mul(CsSq, CsSq)))),
            Div(uu, Mul(Num(2), CsSq))))

FeqWith(rho, u, uu) == MapSeq(LAMBDA k : FeqEntry(k - 1, rho, Dot(VelD(k - 1), u), uu), Q)

\* computeFeq(density, velocity, feq)
computeFeq(rho, u) == FeqWith(rho, u, Dot(u, u))

\* computeFluidFraction of freeSurface: 0 for EMPTY, mass/density clamped to
\* [0, 1] for INTERFACE, 1 otherwise.  std::min(a, b) is (b < a) ? b : a.
ClampFraction(vof) == IF Lt(Max(Zero, vof), One) THEN Max(Zero, vof) ELSE One

computeFluidFraction(rhoF, flagF, massF, c) ==
    IF flagF[c] = "EMPTY" THEN Zero
    ELSE IF flagF[c] = "INTERFACE" THEN ClampFraction(Div(massF[c], rhoF[c]))
    ELSE One

\* computeSurfaceNormal: central differences of the fluid fraction.
computeSurfaceNormal(rhoF, flagF, massF, cx, cy, cz) ==
    << Mul(Half, Sub(computeFluidFraction(rhoF, flagF, massF, indexForCell(cx - 1, cy, cz)),
                     computeFluidFraction(rhoF, flagF, massF, indexForCell(cx + 1, cy, cz)))),
       Mul(Half, Sub(computeFluidFraction(rhoF, flagF, massF, indexForCell(cx, cy - 1, cz)),
                     computeFluidFraction(rhoF, flagF, massF, indexForCell(cx, cy + 1, cz)))),
       Mul(Half, Sub(computeFluidFraction(rhoF, flagF, massF, indexForCell(cx, cy, cz - 1)),
                     computeFluidFraction(rhoF, flagF, massF, indexForCell(cx, cy, cz + 1)))) >>

\* ------------------------------------------------------------------ state
VARIABLES
    flagField,      \* flag_t per cell
    collideField,   \* distributions, cell * Q + i (the adapter's `distributions`)
    streamField,    \* output buffer of doStreaming, distinct from collideField
    density,        \* density per cell (previous time step)
    mass,           \* mass per cell
    gravitation,    \* 3 components
    tau,            \* relaxation time held by the caller
    timeStep,       \* time step held by the caller
    phase,          \* "ready" | "streaming" | "returned" | "failed" (assert aborted)
    pc,             \* per cell task of the parallel loop:
                    \* "pass1" | "pass2" | "done" | "aborted"
    reconstructed,  \* history: the slots of streamField written by line 73
    call            \* what the call was given and what it returned

vars == <<flagField, collideField, streamField, density, mass, gravitation,
          tau, timeStep, phase, pc, reconstructed, call>>

fields == <<flagField, collideField, density, mass>>

IsActive(c) == flagField[c] = "FLUID" \/ flagField[c] = "INTERFACE"

\* ------------------------------------------------- streaming.cpp: helpers
\* The cell a push scheme would name: the neighbour downstream of direction fi.
downstream_fi_cell_index(cx, cy, cz, fi) ==
    indexForCell(cx + Vel(fi)[1], cy + Vel(fi)[2], cz + Vel(fi)[3])

neighbouring_fi_cell_index(cx, cy, cz, fi) ==
    indexForCell(cx - Vel(fi)[1], cy - Vel(fi)[2], cz - Vel(fi)[3])

\* The value the first pass copies into slot i of cell c (line 29).
StreamedValue(c, i) ==
    collideField[neighbouring_fi_cell_index(CoordX(c), CoordY(c), CoordZ(c), i) * Q + i]

\* assert(streamField[fieldIndex + i] >= 0.0) fails (line 30).
AssertFails(v) == ~Ge(v, Zero)

\* The slot a push scheme would write: direction i of the downstream cell.
PushSlot(c, i) ==
    downstream_fi_cell_index(CoordX(c), CoordY(c), CoordZ(c), i) * Q + i

\* Slot of streamField the first pass writes for direction i of cell c.
Pass1Slot(c, i) == c * Q + i

\* The first pass over cell c from direction i on (lines 27-31): each slot is
\* written, then asserted; a failing assert aborts with the later slots
\* unwritten.
RECURSIVE Pass1Loop(_, _, _)
Pass1Loop(sf, c, i) ==
    IF i = Q THEN [field |-> sf, failed |-> FALSE]
    ELSE LET sf1 == [sf EXCEPT ![Pass1Slot(c, i)] = StreamedValue(c, i)]
         IN  IF AssertFails(sf1[c * Q + i])
             THEN [field |-> sf1, failed |-> TRUE]
             ELSE Pass1Loop(sf1, c, i + 1)

\* flagField[neighFlag] == EMPTY (lines 49-51)
isEmptyAdjacent(c, i) ==
    flagField[indexForCell(CoordX(c) + Vel(i)[1], CoordY(c) + Vel(i)[2],
                           CoordZ(c) + Vel(i)[3])] = "EMPTY"

SurfaceNormal(c) ==
    computeSurfaceNormal(density, flagField, mass, CoordX(c), CoordY(c), CoordZ(c))

\* The direction the name invVelocity suggests: the inverse of i.
inverseDirection(i) == inverseVelocityIndex(i)

\* The lattice direction whose velocity is named invVelocity (line 54).
invVelocityIndex(i) == i

\* dotProduct (lines 55-57)
dotProduct(normal, i) == Dot(normal, VelD(invVelocityIndex(i)))

\* isNormalDirection (line 59)
isNormalDirection(normal, i) == Gt(dotProduct(normal, i), Zero)

\* The condition of line 61.
Reconstructs(c, normal, i) == isEmptyAdjacent(c, i) \/ isNormalDirection(normal, i)

\* feq of lines 63-71: density 1.0 (atmosphericPressure), velocity of the
\* collide field and the previous density.  It is the same for every
\* direction of the cell.
ReconstructionFeq(c) == computeFeq(One, computeVelocity(collideField, c * Q, density[c]))

\* The field the second pass reads the cell's own distribution from (line 74).
Pass2Source == collideField

\* The value written by lines 73-74 for direction i.
ReconstructedValue(c, feq, i) ==
    Sub(Add(feq[inverseVelocityIndex(i) + 1], feq[i + 1]), Pass2Source[c * Q + i])

\* Writing the reconstructed value into the slot of direction i itself.
SameDirectionSlot(c, i) == c * Q + i

\* Slot written by line 73 for direction i.
Pass2Slot(c, i) == c * Q + inverseVelocityIndex(i)

\* The slots line 73 writes for cell c.
Pass2Written(c, normal) == {Pass2Slot(c, i) : i \in {j \in Dirs : Reconstructs(c, normal, j)}}

\* The second pass over INTERFACE cell c from direction i on (lines 47-76).
RECURSIVE Pass2Loop(_, _, _, _, _)
Pass2Loop(sf, c, normal, feq, i) ==
    IF i = Q THEN sf
    ELSE Pass2Loop(IF Reconstructs(c, normal, i)
                   THEN [sf EXCEPT ![Pass2Slot(c, i)] = ReconstructedValue(c, feq, i)]
                   ELSE sf,
                   c, normal, feq, i + 1)

\* --------------------------------------------------- timeStep.cpp: helpers
\* Square of curNorm of cell c (lines 18-23); the square root is monotone, so
\* norms are compared through their squares.
VelocityNormSq(c) ==
    LET velocity == computeVelocity(collideField, c * Q, density[c])
    IN  Dot(velocity, velocity)

\* The cells that pass the flag test of lines 15, 68-71 and 87, in loop order.
ActiveCellSeq == SelectSeq([k \in 1 .. NumCells |-> k - 1], IsActive)

\* maximumVelocityNorm (squared) after the first n of those cells (lines 11-25).
RECURSIVE MaxNormSqUpTo(_, _)
MaxNormSqUpTo(cs, n) ==
    IF n = 0 THEN Zero
    ELSE Max(MaxNormSqUpTo(cs, n - 1), VelocityNormSq(cs[n]))

maximumVelocityNormSq == MaxNormSqUpTo(ActiveCellSeq, Len(ActiveCellSeq))

\* lines 27-30
criticalVelocity == Mul(Half, CsSq)
multiplier == Div(Num(4), Num(5))
upperLimit == Div(criticalVelocity, multiplier)
lowerLimit == Mul(criticalVelocity, multiplier)

\* lines 32-42: the new time step, or "keep" when the current one works.
Decision(maxNormSq, allowIncrease) ==
    IF Gt(maxNormSq, Mul(upperLimit, upperLimit)) THEN "shrink"
    ELSE IF Lt(maxNormSq, Mul(lowerLimit, lowerLimit)) /\ allowIncrease THEN "grow"
    ELSE "keep"

NewTimeStep(oldTimeStep, decision) ==
    IF decision = "shrink" THEN Mul(oldTimeStep, multiplier)
    ELSE IF decision = "grow" THEN Div(oldTimeStep, multiplier)
    ELSE oldTimeStep

\* line 43
TimeRatio(newTimeStep, oldTimeStep) == Div(newTimeStep, oldTimeStep)

\* line 44
NewTau(timeRatio, oldTau) == Add(Mul(timeRatio, Sub(oldTau, Half)), Half)

\* lines 45-52
MinimumTau(smagorinskyConstant) ==
    IF Gt(smagorinskyConstant, Zero) THEN Half ELSE Div(One, <<199, 100>>)

\* lines 54-57
Refused(newTau, minimumTau) == Le(newTau, minimumTau)

\* Gravitation scaled like a velocity, by the ratio once.
LinearGravitation(g, timeRatio) ==
    <<Mul(g[1], timeRatio), Mul(g[2], timeRatio), Mul(g[3], timeRatio)>>

\* lines 60-62
RescaledGravitation(g, timeRatio) ==
    << Mul(g[1], Mul(timeRatio, timeRatio)),
       Mul(g[2], Mul(timeRatio, timeRatio)),
       Mul(g[3], Mul(timeRatio, timeRatio)) >>

\* lines 64-75: the two sums after the first n FLUID or INTERFACE cells.
RECURSIVE TotalFluidVolumeUpTo(_, _)
TotalFluidVolumeUpTo(cs, n) ==
    IF n = 0 THEN Zero
    ELSE IF flagField[cs[n]] = "FLUID" THEN Add(TotalFluidVolumeUpTo(cs, n - 1), One)
    ELSE Add(TotalFluidVolumeUpTo(cs, n - 1), Div(mass[cs[n]], density[cs[n]]))

RECURSIVE TotalMassUpTo(_, _)
TotalMassUpTo(cs, n) ==
    IF n = 0 THEN Zero
    ELSE IF flagField[cs[n]] = "FLUID" THEN Add(TotalMassUpTo(cs, n - 1), density[cs[n]])
    ELSE Add(TotalMassUpTo(cs, n - 1), mass[cs[n]])

totalFluidVolume == TotalFluidVolumeUpTo(ActiveCellSeq, Len(ActiveCellSeq))

totalMass == TotalMassUpTo(ActiveCellSeq, Len(ActiveCellSeq))

\* line 76
MedianDensity(fluidVolume, fluidMass) == Div(fluidVolume, fluidMass)

\* line 93
NewDensity(oldDensity, timeRatio, medianDensity) ==
    Add(Mul(timeRatio, Sub(oldDensity, medianDensity)), medianDensity)

\* lines 104-118; localTauRatio stands for newLocalTau / oldLocalTau of the
\* turbulence model.
TauRatio(smagorinskyConstant, timeRatio, newTau, oldTau, localTauRatio) ==
    IF Gt(smagorinskyConstant, Zero) THEN Mul(timeRatio, localTauRatio)
    ELSE Mul(timeRatio, Div(newTau, oldTau))

\* lines 120-123 for one direction: f is distributions[fieldIndex + j].
RescaledValue(f, oldFeqJ, newFeqJ, tauRatio) ==
    Mul(Div(newFeqJ, oldFeqJ), Add(oldFeqJ, Mul(tauRatio, Sub(f, oldFeqJ))))

\* lines 119-124
RescaleWithFeq(c, tauRatio, oldFeq, newFeq) ==
    MapSeq(LAMBDA k : RescaledValue(collideField[c * Q + k - 1], oldFeq[k], newFeq[k], tauRatio),
           Q)

\* lines 96-102
RescaleWithVelocity(c, oldDensity, newDensity, timeRatio, tauRatio, oldVelocity) ==
    RescaleWithFeq(c, tauRatio,
        computeFeq(oldDensity, oldVelocity),
        computeFeq(newDensity, << Mul(oldVelocity[1], timeRatio),
                                  Mul(oldVelocity[2], timeRatio),
                                  Mul(oldVelocity[3], timeRatio) >>))

\* lines 95-124: the rescaled distributions of cell c.
RescaledDistributions(c, oldDensity, newDensity, timeRatio, tauRatio) ==
    RescaleWithVelocity(c, oldDensity, newDensity, timeRatio, tauRatio,
        computeVelocity(collideField, c * Q, oldDensity))

\* line 128
RescaledMass(oldMass, oldDensity, newDensity) == Mul(oldMass, Div(oldDensity, newDensity))

\* The pair returned on an accepted change (line 133).
AcceptedReturn(newTau, newTimeStep) == <<newTau, newTimeStep>>

\* The pair in the order of the parameter list (oldTimeStep, oldTau).
ParameterOrderReturn(oldTau, oldTimeStep) == <<oldTimeStep, oldTau>>

\* The pair returned when nothing changes (lines 41, 56).
UnchangedReturn(oldTau, oldTimeStep) == <<oldTau, oldTimeStep>>

\* One iteration of the loop of lines 84-131 for FLUID or INTERFACE cell c.
RescaledCellWith(c, oldDensity, newDensity, timeRatio, tauRatio) ==
    [distributions |-> RescaledDistributions(c, oldDensity, newDensity, timeRatio, tauRatio),
     mass |-> IF flagField[c] = "INTERFACE"
              THEN RescaledMass(mass[c], oldDensity, newDensity)
              ELSE mass[c],
     density |-> newDensity]

RescaledCell(c, timeRatio, tauRatio, medianDensity) ==
    RescaledCellWith(c, density[c], NewDensity(density[c], timeRatio, medianDensity),
                     timeRatio, tauRatio)

\* The loop of lines 84-131: cell c is element c + 1.
RescaledCells(smagorinskyConstant, localTauRatio, timeRatio, newTau, oldTau, medianDensity) ==
    MapSeq(LAMBDA n :
               IF IsActive(n - 1)
               THEN RescaledCell(n - 1, timeRatio,
                        TauRatio(smagorinskyConstant, timeRatio, newTau, oldTau,
                                 localTauRatio),
                        medianDensity)
               ELSE <<>>,
           NumCells)

\* What a call leaves behind: the outcome, the returned pair, gravitation and
\* the rescaled cells.
Unchanged(outcome, maxNormSq) ==
    [outcome |-> outcome, maxNormSq |-> maxNormSq,
     ret |-> UnchangedReturn(tau, timeStep), gravitation |-> gravitation, cells |-> <<>>]

\* lines 59-133
Accepted(smagorinskyConstant, localTauRatio, maxNormSq, newTimeStep, timeRatio, newTau) ==
    [outcome |-> "accepted", maxNormSq |-> maxNormSq,
     ret |-> AcceptedReturn(newTau, newTimeStep),
     gravitation |-> RescaledGravitation(gravitation, timeRatio),
     cells |-> RescaledCells(smagorinskyConstant, localTauRatio, timeRatio, newTau, tau,
                   MedianDensity(totalFluidVolume, totalMass))]

\* lines 44-57
AfterRatio(smagorinskyConstant, localTauRatio, maxNormSq, newTimeStep, timeRatio, newTau) ==
    IF Refused(newTau, MinimumTau(smagorinskyConstant))
    THEN Unchanged("refused", maxNormSq)
    ELSE Accepted(smagorinskyConstant, localTauRatio, maxNormSq, newTimeStep, timeRatio, newTau)

\* lines 43-44
AfterTimeStep(smagorinskyConstant, localTauRatio, maxNormSq, newTimeStep, timeRatio) ==
    AfterRatio(smagorinskyConstant, localTauRatio, maxNormSq, newTimeStep, timeRatio,
               NewTau(timeRatio, tau))

\* lines 32-43
AfterDecision(smagorinskyConstant, localTauRatio, maxNormSq, decision, newTimeStep) ==
    IF decision = "keep"
    THEN Unchanged("unchanged", maxNormSq)
    ELSE AfterTimeStep(smagorinskyConstant, localTauRatio, maxNormSq, newTimeStep,
                       TimeRatio(newTimeStep, timeStep))

AfterMeasure(smagorinskyConstant, allowIncrease, localTauRatio, maxNormSq, decision) ==
    AfterDecision(smagorinskyConstant, localTauRatio, maxNormSq, decision,
                  NewTimeStep(timeStep, decision))

\* The whole call, lines 4-134, with oldTau = tau and oldTimeStep = timeStep.
AdaptResult(smagorinskyConstant, allowIncrease, localTauRatio, maxNormSq) ==
    AfterMeasure(smagorinskyConstant, allowIncrease, localTauRatio, maxNormSq,
                 Decision(maxNormSq, allowIncrease))

\* ---------------------------------------------------------- initial states
\* Interior flags: the interface layer is closed, no FLUID cell touches an
\* EMPTY one; the halo holds boundary cells.
FlagConfigs ==
    {f \in [InteriorZ -> {"FLUID", "INTERFACE", "EMPTY"}] :
        \A z \in InteriorZ : z < LenZ =>
            /\ ~(f[z] = "FLUID" /\ f[z + 1] = "EMPTY")
            /\ ~(f[z] = "EMPTY" /\ f[z + 1] = "FLUID")}

\* Distributions of the FLUID and INTERFACE cells: the equilibrium of a flow
\* along z at rest, inside the stability band and above it, or a cell at rest
\* so far off equilibrium that the distributions along z are negative.
InitProfiles == {"rest", "band", "fast", "negative"}

InitVelocity(profile) ==
    IF profile = "band" THEN <<Zero, Zero, <<1, 6>>>>
    ELSE IF profile = "fast" THEN <<Zero, Zero, <<1, 4>>>>
    ELSE <<Zero, Zero, Zero>>

\* The deviation from equilibrium of direction i: it carries no mass and no
\* momentum.
InitDeviation(profile, i) ==
    IF profile # "negative" THEN Zero
    ELSE IF Vel(i) = <<0, 0, 1>> \/ Vel(i) = <<0, 0, -1>> THEN <<-1, 12>>
    ELSE IF Vel(i) = <<0, 0, 0>> THEN <<1, 6>>
    ELSE Zero

InitDistribution(profile, rho, i) ==
    Add(FeqEntry(i, rho, Dot(VelD(i), InitVelocity(profile)),
                 Dot(InitVelocity(profile), InitVelocity(profile))),
        Mul(rho, InitDeviation(profile, i)))

\* Density of interior cell z: uniform, or growing with z.
InitDensities == {[z \in InteriorZ |-> One], [z \in InteriorZ |-> Num(z)]}

\* Fill level (mass / density) of the INTERFACE cells.
InitFills == {Zero, Half}

\* EMPTY cells hold no valid distributions: zeros, or negative leftovers.
InitEmpty == {Zero, Num(-1)}

InitTaus == {<<3, 5>>, <<503, 1000>>}

InitGravitation == << <<1, 100>>, <<-1, 10>>, <<1, 5>> >>

SmagorinskyConstants == {Zero, <<1, 10>>}

LocalTauRatios == {One, <<9, 10>>}

\* streamField before the call: the values of an earlier step, none of them
\* a value of collideField.
StaleStreamField == [k \in FieldIdx |-> Num(-(k + 1))]

NoCall ==
    [op |-> "none", outcome |-> "none", oldTau |-> Zero, oldTimeStep |-> Zero,
     allowIncrease |-> FALSE, smagorinskyConstant |-> Zero, maxNormSq |-> Zero,
     ret |-> <<Zero, Zero>>, preGravitation |-> InitGravitation,
     preDensity |-> <<>>, preMass |-> <<>>]

Init ==
    \E f \in FlagConfigs, profile \in InitProfiles, rho \in InitDensities,
       fill \in InitFills, g \in InitEmpty, t \in InitTaus :
        /\ flagField = [c \in Cells |->
                            IF c \in InteriorCells THEN f[CoordZ(c)] ELSE "NO_SLIP"]
        /\ collideField = [k \in FieldIdx |->
                LET c == k \div Q
                    i == k % Q
                IN  IF c \notin InteriorCells THEN Norm(k + 1, 36)
                    ELSE IF f[CoordZ(c)] = "EMPTY" THEN Mul(g, LatticeWeight(i))
                    ELSE InitDistribution(profile, rho[CoordZ(c)], i)]
        /\ streamField = StaleStreamField
        /\ density = [c \in Cells |-> IF c \in InteriorCells THEN rho[CoordZ(c)] ELSE One]
        /\ mass = [c \in Cells |->
                        IF c \notin InteriorCells THEN Zero
                        ELSE IF f[CoordZ(c)] = "FLUID" THEN rho[CoordZ(c)]
                        ELSE IF f[CoordZ(c)] = "INTERFACE" THEN Mul(fill, rho[CoordZ(c)])
                        ELSE Zero]
        /\ gravitation = InitGravitation
        /\ tau = t
        /\ timeStep = One
        /\ phase = "ready"
        /\ pc = [c \in Cells |-> "done"]
        /\ reconstructed = {}
        /\ call = NoCall

\* ---------------------------------------------------- doStreaming, by task
\* The call starts the parallel loop: one task per cell.  The task of a cell
\* that is neither FLUID nor INTERFACE has no effect (lines 24, 34).
StartStreaming ==
    /\ phase = "ready"
    /\ phase' = "streaming"
    /\ pc' = [c \in Cells |-> IF IsActive(c) THEN "pass1" ELSE "done"]
    /\ call' = [NoCall EXCEPT !.op = "stream", !.outcome = "running"]
    /\ UNCHANGED <<fields, streamField, gravitation, tau, timeStep, reconstructed>>

\* The effect of the first pass with result r: a failed assert aborts the
\* process, otherwise the task goes on to line 34.
Pass1Effect(c, r) ==
    /\ streamField' = r.field
    /\ IF r.failed
       THEN /\ phase' = "failed"
            /\ call' = [call EXCEPT !.outcome = "failed"]
            /\ pc' = [pc EXCEPT ![c] = "aborted"]
       ELSE /\ phase' = phase
            /\ call' = call
            /\ pc' = [pc EXCEPT ![c] =
                         IF flagField[c] = "INTERFACE" THEN "pass2" ELSE "done"]

\* Lines 24-32 for cell c.
Pass1(c) ==
    /\ phase = "streaming"
    /\ pc[c] = "pass1"
    /\ Pass1Effect(c, Pass1Loop(streamField, c, 0))
    /\ UNCHANGED <<fields, gravitation, tau, timeStep, reconstructed>>

\* Lines 34-77 for INTERFACE cell c.
Pass2(c) ==
    /\ phase = "streaming"
    /\ pc[c] = "pass2"
    /\ streamField' = Pass2Loop(streamField, c, SurfaceNormal(c), ReconstructionFeq(c), 0)
    /\ reconstructed' = reconstructed \cup Pass2Written(c, SurfaceNormal(c))
    /\ pc' = [pc EXCEPT ![c] = "done"]
    /\ UNCHANGED <<fields, gravitation, tau, timeStep, phase, call>>

\* The end of the parallel loop: doStreaming returns.
EndStreaming ==
    /\ phase = "streaming"
    /\ \A c \in Cells : pc[c] = "done"
    /\ phase' = "returned"
    /\ call' = [call EXCEPT !.outcome = "done"]
    /\ UNCHANGED <<fields, streamField, gravitation, tau, timeStep, pc, reconstructed>>

\* ---------------------------------------------------------- adaptTimestep
\* The effect of a call with result r on the caller's state.
AdaptEffect(smagorinskyConstant, allowIncrease, r) ==
    /\ call' = [op |-> "adapt", outcome |-> r.outcome, oldTau |-> tau,
                oldTimeStep |-> timeStep, allowIncrease |-> allowIncrease,
                smagorinskyConstant |-> smagorinskyConstant, maxNormSq |-> r.maxNormSq,
                ret |-> r.ret, preGravitation |-> gravitation,
                preDensity |-> density, preMass |-> mass]
    /\ tau' = r.ret[1]
    /\ timeStep' = r.ret[2]
    /\ gravitation' = r.gravitation
    /\ IF r.outcome = "accepted"
       THEN /\ collideField' = [k \in FieldIdx |->
                    IF IsActive(k \div Q)
                    THEN r.cells[(k \div Q) + 1].distributions[(k % Q) + 1]
                    ELSE collideField[k]]
            /\ mass' = [c \in Cells |->
                    IF IsActive(c) THEN r.cells[c + 1].mass ELSE mass[c]]
            /\ density' = [c \in Cells |->
                    IF IsActive(c) THEN r.cells[c + 1].density ELSE density[c]]
       ELSE UNCHANGED <<collideField, mass, density>>

adaptTimestep(smagorinskyConstant, allowIncrease, localTauRatio) ==
    /\ phase = "ready"
    /\ phase' = "returned"
    /\ AdaptEffect(smagorinskyConstant, allowIncrease,
           AdaptResult(smagorinskyConstant, allowIncrease, localTauRatio,
                       maximumVelocityNormSq))
    /\ UNCHANGED <<flagField, streamField, pc, reconstructed>>

Adapt ==
    \E smagorinskyConstant \in SmagorinskyConstants, allowIncrease \in BOOLEAN :
        \E localTauRatio \in
                IF Gt(smagorinskyConstant, Zero) THEN LocalTauRatios ELSE {One} :
            adaptTimestep(smagorinskyConstant, allowIncrease, localTauRatio)

Next ==
    \/ StartStreaming
    \/ \E c \in Cells : Pass1(c)
    \/ \E c \in Cells : Pass2(c)
    \/ EndStreaming
    \/ Adapt

Spec == Init /\ [][Next]_vars

\* ------------------------------------------------ properties of doStreaming
\* The cell upstream of direction i, written out from the coordinates.
Upstream(c, i) ==
    indexForCell(CoordX(c) - Vel(i)[1], CoordY(c) - Vel(i)[2], CoordZ(c) - Vel(i)[3])

\* The task of cell c has run to its end in a call of doStreaming.
TaskDone(c) == call.op = "stream" /\ pc[c] = "done"

StreamingReturned == call.op = "stream" /\ phase = "returned"

\* C1: once the task of a FLUID cell is done, and from then on, every slot i
\* of the cell holds exactly the pre-step value of slot i of the upstream
\* neighbour: nothing is computed, no slot is left stale, none is overwritten.
C1_PureDataMotion ==
    \A c \in Cells :
        (TaskDone(c) /\ flagField[c] = "FLUID") =>
            \A i \in Dirs : streamField[c * Q + i] = collideField[Upstream(c, i) * Q + i]

\* doStreaming has returned over a grid with a FLUID cell.
C1_Witness == StreamingReturned /\ \E c \in Cells : flagField[c] = "FLUID"

\* Direction i of cell c is flagged for reconstruction: the cell adjacent in
\* direction i is EMPTY, or the normal-direction test of i is positive.
Flagged(c, normal, i) ==
    \/ flagField[indexForCell(CoordX(c) + Vel(i)[1], CoordY(c) + Vel(i)[2],
                              CoordZ(c) + Vel(i)[3])] = "EMPTY"
    \/ isNormalDirection(normal, i)

C2_Cell(c, normal, feq) ==
    \A i \in Dirs :
        /\ Flagged(c, normal, i) =>
               streamField[c * Q + inverseVelocityIndex(i)] =
                   Sub(Add(feq[inverseVelocityIndex(i) + 1], feq[i + 1]),
                       collideField[c * Q + i])
        /\ ~Flagged(c, normal, inverseVelocityIndex(i)) =>
               streamField[c * Q + i] = collideField[Upstream(c, i) * Q + i]

\* C2: once the task of an INTERFACE cell is done, for every flagged direction
\* i the slot inverse(i) holds feq[inverse(i)] + feq[i] - collideField[cell][i],
\* feq being the equilibrium at density 1 and the velocity of the cell's
\* collideField distributions and previous density; every direction whose
\* inverse is not flagged holds the streamed upstream value.
C2_InterfaceReconstruction ==
    \A c \in Cells :
        (TaskDone(c) /\ flagField[c] = "INTERFACE") =>
            C2_Cell(c,
                computeSurfaceNormal(density, flagField, mass,
                                     CoordX(c), CoordY(c), CoordZ(c)),
                computeFeq(One, computeVelocity(collideField, c * Q, density[c])))

\* doStreaming has returned over a grid with an INTERFACE cell that has an
\* EMPTY neighbour, a flagged direction and an unflagged one.
C2_Witness ==
    /\ StreamingReturned
    /\ \E c \in Cells :
        /\ flagField[c] = "INTERFACE"
        /\ \E i \in Dirs : isEmptyAdjacent(c, i)
        /\ \E i \in Dirs : ~Flagged(c, SurfaceNormal(c), i)
        /\ \E k \in reconstructed : k \div Q = c


\* Slot i of cell c is not reconstructed: the cell is FLUID, or it is
\* INTERFACE and the direction that writes slot i, inverse(i), is not flagged.
NotReconstructed(c, i) ==
    \/ flagField[c] = "FLUID"
    \/ /\ flagField[c] = "INTERFACE"
       /\ ~Flagged(c, SurfaceNormal(c), inverseVelocityIndex(i))

\* Some slot that is not reconstructed would receive a negative value.
NegativeStreamed ==
    \E c \in Cells, i \in Dirs :
        NotReconstructed(c, i) /\ Lt(collideField[Upstream(c, i) * Q + i], Zero)

\* C6: doStreaming fails exactly when a FLUID cell or a direction of an
\* INTERFACE cell that is not reconstructed would receive a negative value:
\* it fails only then, a negative upstream value of a reconstructed direction
\* alone does not make it fail, and when it returns every slot that is not
\* reconstructed is >= 0.
C6_NonNegativityCheck ==
    call.op = "stream" =>
        /\ phase = "failed" => NegativeStreamed
        /\ phase = "returned" =>
               /\ ~NegativeStreamed
               /\ \A c \in Cells, i \in Dirs :
                      NotReconstructed(c, i) => Ge(streamField[c * Q + i], Zero)

\* doStreaming has failed although no slot that is not reconstructed would
\* receive a negative value.
C6_SpuriousFailure == call.op = "stream" /\ phase = "failed" /\ ~NegativeStreamed

\* The serial loop: the task of cell c run on streamField sf, after the first
\* pass left r.
SerialSecondPass(c, r) ==
    IF flagField[c] = "INTERFACE"
    THEN Pass2Loop(r.field, c, SurfaceNormal(c), ReconstructionFeq(c), 0)
    ELSE r.field

SerialTask(sf, c) == SerialSecondPass(c, Pass1Loop(sf, c, 0))

\* streamField after the tasks of the first n FLUID or INTERFACE cells, run
\* one after the other in index order.
RECURSIVE SerialStreamingUpTo(_, _)
SerialStreamingUpTo(cs, n) ==
    IF n = 0 THEN StaleStreamField
    ELSE SerialTask(SerialStreamingUpTo(cs, n - 1), cs[n])

SerialStreaming == SerialStreamingUpTo(ActiveCellSeq, Len(ActiveCellSeq))

\* Whatever the interleaving, the returned streamField is that of the serial
\* loop.
C8_OrderIndependent == StreamingReturned => streamField = SerialStreaming

\* A step of a call of doStreaming leaves collideField, flagField, mass and
\* density alone, and a slot of streamField changes only in a step of the
\* task of the cell that owns the slot.
C8_TaskStep ==
    call'.op = "stream" =>
        /\ UNCHANGED <<collideField, flagField, mass, density>>
        /\ \A k \in FieldIdx :
               streamField'[k] # streamField[k] =>
                   /\ pc[k \div Q] \in {"pass1", "pass2"}
                   /\ pc'[k \div Q] # pc[k \div Q]

ReconstructedSlots(c) == {k \in reconstructed : k \div Q = c}

NoEmptyNeighbour(c) == \A i \in Dirs : ~isEmptyAdjacent(c, i)

\* C9, in the documentation's wording: for an INTERFACE cell without EMPTY
\* neighbours the
\* reconstructed slots are the inverse(i) with
\* normal . LATTICEVELOCITIES[inverse(i)] > 0.
C9_InverseVelocityTest ==
    \A c \in Cells :
        (TaskDone(c) /\ flagField[c] = "INTERFACE" /\ NoEmptyNeighbour(c)) =>
            ReconstructedSlots(c) =
                {c * Q + inverseVelocityIndex(i) :
                    i \in {j \in Dirs :
                        Gt(Dot(SurfaceNormal(c), VelD(inverseVelocityIndex(j))), Zero)}}

\* C9, with the velocity line 54 uses: for an INTERFACE cell without EMPTY
\* neighbours the
\* reconstructed slots are the inverse(i) with normal . LATTICEVELOCITIES[i] > 0:
\* the dot product uses the velocity of i itself.
C9_OwnVelocityTest ==
    \A c \in Cells :
        (TaskDone(c) /\ flagField[c] = "INTERFACE" /\ NoEmptyNeighbour(c)) =>
            ReconstructedSlots(c) =
                {c * Q + inverseVelocityIndex(i) :
                    i \in {j \in Dirs : Gt(Dot(SurfaceNormal(c), VelD(j)), Zero)}}

\* The task of an INTERFACE cell without EMPTY neighbours is done and has
\* reconstructed slots: the normal-direction test alone selected them.
C9_Witness ==
    \E c \in Cells :
        /\ TaskDone(c)
        /\ flagField[c] = "INTERFACE"
        /\ NoEmptyNeighbour(c)
        /\ ReconstructedSlots(c) # {}


\* ---------------------------------------------- properties of adaptTimestep
\* The documented decision, on the square of the maximum velocity norm:
\* critical = 0.5 * C_S^2 = 1/6, safety = 0.8, critical / safety = 5/24 and
\* critical * safety = 2/15.
AboveBand(normSq) == Gt(normSq, Mul(<<5, 24>>, <<5, 24>>))

BelowBand(normSq) == Lt(normSq, Mul(<<2, 15>>, <<2, 15>>))

\* newTimeStep / oldTimeStep of the documented decision; 1 when the time step
\* is kept.
DocumentedRatio(normSq, allowIncrease) ==
    IF AboveBand(normSq) THEN <<4, 5>>
    ELSE IF BelowBand(normSq) /\ allowIncrease THEN Div(One, <<4, 5>>)
    ELSE One

DocumentedNewTau(ratio, oldTau) == Add(Mul(ratio, Sub(oldTau, Half)), Half)

DocumentedMinimumTau(smagorinskyConstant) ==
    IF Gt(smagorinskyConstant, Zero) THEN Half ELSE Div(One, <<199, 100>>)

\* The call changes the time step: a shrink or a grow whose candidate newTau
\* is above the floor.
DocumentedAccept(ratio, oldTau, smagorinskyConstant) ==
    /\ ratio # One
    /\ Gt(DocumentedNewTau(ratio, oldTau), DocumentedMinimumTau(smagorinskyConstant))

\* A step that is a call of adaptTimestep.
AdaptStep == phase = "ready" /\ call'.op = "adapt"

C4_Step(ratio) ==
    ~DocumentedAccept(ratio, tau, call'.smagorinskyConstant) =>
        /\ call'.ret = <<tau, timeStep>>
        /\ UNCHANGED <<collideField, density, mass, flagField, gravitation>>

\* C4: a call whose maximum velocity norm lies in the band, or below it with
\* allowIncrease false, or whose candidate newTau is <= minimumTau, returns
\* exactly (oldTau, oldTimeStep) and changes none of distributions, density,
\* mass, flags and gravitation.
C4_NoOp ==
    [][AdaptStep =>
           \A ratio \in {DocumentedRatio(maximumVelocityNormSq, call'.allowIncrease)} :
               C4_Step(ratio)]_vars

\* A call refused at the stability floor has returned.
C4_Witness ==
    /\ call.op = "adapt"
    /\ phase = "returned"
    /\ call.outcome = "refused"
    /\ AboveBand(call.maxNormSq)
    /\ Le(DocumentedNewTau(<<4, 5>>, call.oldTau), DocumentedMinimumTau(call.smagorinskyConstant))

C5_Step(ratio) ==
    DocumentedAccept(ratio, tau, call'.smagorinskyConstant) =>
        /\ call'.ret = <<DocumentedNewTau(ratio, tau), Mul(timeStep, ratio)>>
        /\ \A d \in 1 .. 3 : gravitation'[d] = Mul(gravitation[d], Mul(ratio, ratio))

\* C5: a call that shrinks (norm above critical / safety) or grows (norm below
\* critical * safety and allowIncrease) with newTau = ratio * (oldTau - 0.5) +
\* 0.5 above minimumTau returns (newTau, newTimeStep) in that order, the new
\* time step being oldTimeStep * 0.8 or oldTimeStep / 0.8, and has multiplied
\* every component of gravitation by ratio^2 once.
C5_AcceptedChange ==
    [][AdaptStep =>
           \A ratio \in {DocumentedRatio(maximumVelocityNormSq, call'.allowIncrease)} :
               C5_Step(ratio)]_vars

\* An accepted shrink has returned: the time step is 0.8 of the old one and
\* gravitation is 0.64 of the old one.
C5_Witness ==
    /\ call.op = "adapt"
    /\ phase = "returned"
    /\ call.outcome = "accepted"
    /\ timeStep = Mul(call.oldTimeStep, <<4, 5>>)
    /\ gravitation[3] = Mul(call.preGravitation[3], <<16, 25>>)

\* (sum of d over FLUID cells) + (sum of m over INTERFACE cells), over the
\* first n FLUID or INTERFACE cells.
RECURSIVE SystemMassUpTo(_, _, _, _)
SystemMassUpTo(d, m, cs, n) ==
    IF n = 0 THEN Zero
    ELSE Add(SystemMassUpTo(d, m, cs, n - 1),
             IF flagField[cs[n]] = "FLUID" THEN d[cs[n]] ELSE m[cs[n]])

SystemMass(d, m) == SystemMassUpTo(d, m, ActiveCellSeq, Len(ActiveCellSeq))

\* |after - before| <= |before| / 1000.  The arithmetic is exact, so no
\* rounding error is to be absorbed; the margin is far wider than the 1e-9 of
\* the documentation.
WithinTolerance(after, before) ==
    /\ Le(Sub(after, before), Mul(<<1, 1000>>, before))
    /\ Le(Sub(before, after), Mul(<<1, 1000>>, before))

\* An accepted change has returned, and the grid held mass before the call.
AcceptedReturned ==
    /\ call.op = "adapt"
    /\ phase = "returned"
    /\ call.outcome = "accepted"
    /\ Gt(SystemMass(call.preDensity, call.preMass), Zero)

\* C3: after an accepted change the total (sum of density over FLUID cells) +
\* (sum of mass over INTERFACE cells) equals the total before the call, up to
\* the tolerance.
C3_MassConserved ==
    AcceptedReturned =>
        WithinTolerance(SystemMass(density, mass),
                        SystemMass(call.preDensity, call.preMass))

\* C10: after an accepted change every INTERFACE cell has the volume fraction
\* mass / density it had before the call, and the mass entry of every FLUID
\* cell is the one it had.
C10_VolumeFraction ==
    AcceptedReturned =>
        \A c \in Cells :
            /\ flagField[c] = "INTERFACE" =>
                   Div(mass[c], density[c]) = Div(call.preMass[c], call.preDensity[c])
            /\ flagField[c] = "FLUID" => mass[c] = call.preMass[c]

\* C7: a call of adaptTimestep that returns has written no NaN and no Inf
\* into distributions, density or mass: a zero divisor in the rescale pass
\* ends the call in failure instead.
C7_NoSilentUndefined ==
    (call.op = "adapt" /\ phase = "returned") =>
        \A c \in Cells :
            IsActive(c) =>
                /\ IsFinite(density[c])
                /\ IsFinite(mass[c])
                /\ \A i \in Dirs : IsFinite(collideField[c * Q + i])


\* An accepted change has returned over a grid of FLUID cells of different
\* densities.
C3_Witness ==
    /\ AcceptedReturned
    /\ \A c \in Cells : flagField[c] # "INTERFACE"
    /\ \E c, e \in Cells :
        /\ flagField[c] = "FLUID"
        /\ flagField[e] = "FLUID"
        /\ call.preDensity[c] # call.preDensity[e]

\* An accepted change has returned over a grid with a partly filled INTERFACE
\* cell whose density the call has changed.
C10_Witness ==
    /\ AcceptedReturned
    /\ \E c \in Cells :
        /\ flagField[c] = "INTERFACE"
        /\ Gt(call.preMass[c], Zero)
        /\ IsFinite(density[c])
        /\ density[c] # call.preDensity[c]

\* An accepted change has returned over a grid whose total mass, the divisor
\* of medianDensity, was 0.
C7_Witness ==
    /\ call.op = "adapt"
    /\ phase = "returned"
    /\ call.outcome = "accepted"
    /\ SystemMass(call.preDensity, call.preMass) = Zero

=============================================================================
